---- MODULE Spec2Model ----
(***************************************************************************)
(* Model of the fraud-detection core: the anomaly detector and the feature *)
(* encoder of app/utils/preprocessing.py and the scoring orchestrator      *)
(* FraudDetectionService of app/services/prediction.py, with the batch     *)
(* endpoint of app/main.py.                                                *)
(*                                                                         *)
(* Python floats are modelled as exact rationals <<n, d>> with d > 0 in    *)
(* lowest terms, so that sums, ratios and comparisons are computed as the  *)
(* code computes them, without rounding.                                   *)
(***************************************************************************)
EXTENDS Integers, Sequences, FiniteSets, TLC

(***************************************************************************)
(* Bounds of the model.                                                    *)
(***************************************************************************)
\* number of concurrent single-prediction requests on the shared service
NRequests == 1
\* longest list handed to batch_predict
MaxBatch == 2

(***************************************************************************)
(* Exact rational arithmetic standing for Python float arithmetic.         *)
(***************************************************************************)
RECURSIVE GCD(_, _)
GCD(a, b) == IF b = 0 THEN a ELSE GCD(b, a % b)

IAbs(x) == IF x < 0 THEN -x ELSE x

Norm(n, d) ==
    LET g == GCD(IAbs(n), IAbs(d))
        s == IF d < 0 THEN -1 ELSE 1
    IN  <<(s * n) \div g, (s * d) \div g>>

R(n) == <<n, 1>>
Frac(n, d) == Norm(n, d)
\* over the least common denominator, to keep the products small
RAdd(a, b) ==
    LET g == GCD(a[2], b[2])
    IN  Norm(a[1] * (b[2] \div g) + b[1] * (a[2] \div g), (a[2] \div g) * b[2])
RNeg(a) == <<-a[1], a[2]>>
RSub(a, b) == RAdd(a, RNeg(b))
RMul(a, b) ==
    LET g1 == GCD(IAbs(a[1]), b[2])
        g2 == GCD(IAbs(b[1]), a[2])
    IN  Norm((a[1] \div g1) * (b[1] \div g2), (a[2] \div g2) * (b[2] \div g1))
RInv(a) == IF a[1] < 0 THEN <<-a[2], -a[1]>> ELSE <<a[2], a[1]>>
RDiv(a, b) == RMul(a, RInv(b))
\* a < b, comparing the integer parts first and then the fractional parts
RLt(a, b) ==
    LET wa == a[1] \div a[2]
        wb == b[1] \div b[2]
    IN  IF wa # wb THEN wa < wb
        ELSE (a[1] % a[2]) * b[2] < (b[1] % b[2]) * a[2]
RGt(a, b) == RLt(b, a)
RLe(a, b) == ~RLt(b, a)
RMax(a, b) == IF RLt(a, b) THEN b ELSE a
RMin(a, b) == IF RLt(b, a) THEN b ELSE a
RAbs(a) == <<IAbs(a[1]), a[2]>>

(***************************************************************************)
(* Number formatting of the reason strings: f"{x:,.2f}" and f"{x:.1f}".    *)
(* A formatted number is <<sign, whole part, fraction digits>>, rounded    *)
(* half-to-even at the last digit as Python's format does.                 *)
(***************************************************************************)
FmtFixed(x, scale) ==
    LET n == IAbs(x[1])
        d == x[2]
        whole == n \div d
        num == (n % d) * scale
        q == num \div d
        r == num % d
        up == (2 * r > d) \/ (2 * r = d /\ q % 2 = 1)
        f == IF up THEN q + 1 ELSE q
        w == IF f = scale THEN whole + 1 ELSE whole
        ff == IF f = scale THEN 0 ELSE f
    IN  <<IF x[1] < 0 THEN "-" ELSE "", w, ff>>

Fmt2(x) == FmtFixed(x, 100)
Fmt1(x) == FmtFixed(x, 10)

(***************************************************************************)
(* preprocessing.py: the bundled feature statistics.                       *)
(***************************************************************************)
DefaultFeatureStats ==
    [amount |->
        [mean |-> R(179553), std |-> R(603858), min |-> R(0),
         max |-> R(92445516), q25 |-> Frac(1355, 100), q50 |-> Frac(7487, 100),
         q75 |-> R(208), q99 |-> R(1111864)],
     oldbalanceOrg |->
        [mean |-> R(835641), std |-> R(2888242), min |-> R(0),
         max |-> R(59585040), q25 |-> R(0), q50 |-> R(14208),
         q75 |-> R(107360), q99 |-> R(8940000)],
     newbalanceOrig |->
        [mean |-> R(855113), std |-> R(2908293), min |-> R(0),
         max |-> R(49585040), q25 |-> R(0), q50 |-> R(0),
         q75 |-> R(144587), q99 |-> R(9253364)],
     oldbalanceDest |->
        [mean |-> R(1100701), std |-> R(3399180), min |-> R(0),
         max |-> R(356015089), q25 |-> R(0), q50 |-> R(0),
         q75 |-> R(324784), q99 |-> R(14239246)],
     newbalanceDest |->
        [mean |-> R(1224996), std |-> R(3564366), min |-> R(0),
         max |-> R(356179278), q25 |-> R(0), q50 |-> R(0),
         q75 |-> R(417334), q99 |-> R(14928629)]]

\* the fields is_anomalous iterates over, in iteration order
NumericFeatures ==
    <<"amount", "oldbalanceOrg", "newbalanceOrig", "oldbalanceDest", "newbalanceDest">>

\* variant: the reference of the ratio check is the 75th percentile
Q99RefUsesQ75(stats) ==
    IF "q75" \in DOMAIN stats THEN stats.q75 ELSE RMul(stats.max, Frac(9, 10))

\* stats.get('q99', stats['max'] * 0.9)
Q99Ref(stats) ==
    IF "q99" \in DOMAIN stats THEN stats.q99 ELSE RMul(stats.max, Frac(9, 10))

(***************************************************************************)
(* preprocessing.py is_anomalous: the three per-field checks.  Each returns *)
(* the pair <<added score, appended reasons>>.                             *)
(***************************************************************************)
\* variant: the ratio penalty applies as soon as the value exceeds the reference
RatioCheckAnyExcess(feature, value, stats) ==
    IF RGt(value, Q99Ref(stats))
    THEN LET ratio == RDiv(value, RMax(Q99Ref(stats), R(1)))
         IN  <<RMin(RMul(ratio, R(2)), R(20)),
               <<<<"ratio", feature, Fmt2(value), Fmt1(ratio)>>>> >>
    ELSE <<R(0), << >> >>

RatioCheck(feature, value, stats) ==
    IF RGt(value, Q99Ref(stats))
    THEN LET ratio == RDiv(value, RMax(Q99Ref(stats), R(1)))
         IN  IF RGt(ratio, Frac(3, 2))
             THEN <<RMin(RMul(ratio, R(2)), R(20)),
                    <<<<"ratio", feature, Fmt2(value), Fmt1(ratio)>>>> >>
             ELSE <<R(0), << >> >>
    ELSE <<R(0), << >> >>

\* variant: the z-score is added without a cap
MaxCheckUncapped(feature, value, stats) ==
    IF RGt(value, stats.max)
    THEN LET z_score == RDiv(RSub(value, stats.mean), RMax(stats.std, R(1)))
         IN  <<RAbs(z_score),
               <<<<"max", feature, Fmt2(value), Fmt2(stats.max)>>>> >>
    ELSE <<R(0), << >> >>

\* variant: the z-score is measured from the recorded maximum
MaxCheckFromMax(feature, value, stats) ==
    IF RGt(value, stats.max)
    THEN LET z_score == RDiv(RSub(value, stats.max), RMax(stats.std, R(1)))
         IN  <<RMin(RAbs(z_score), R(30)),
               <<<<"max", feature, Fmt2(value), Fmt2(stats.max)>>>> >>
    ELSE <<R(0), << >> >>

MaxCheck(feature, value, stats) ==
    IF RGt(value, stats.max)
    THEN LET z_score == RDiv(RSub(value, stats.mean), RMax(stats.std, R(1)))
         IN  <<RMin(RAbs(z_score), R(30)),
               <<<<"max", feature, Fmt2(value), Fmt2(stats.max)>>>> >>
    ELSE <<R(0), << >> >>

\* variant: a value of zero counts as negative
NegativeCheckAtZero(feature, value) ==
    IF RLe(value, R(0))
    THEN <<R(10), <<<<"negative", feature, Fmt2(value)>>>> >>
    ELSE <<R(0), << >> >>

NegativeCheck(feature, value) ==
    IF RLt(value, R(0))
    THEN <<R(10), <<<<"negative", feature, Fmt2(value)>>>> >>
    ELSE <<R(0), << >> >>

\* variant: the three per-field checks are alternatives, the first that
\* triggers wins
FeatureCheckFirstOnly(feature, transaction, feature_stats) ==
    IF feature \in DOMAIN transaction /\ feature \in DOMAIN feature_stats
    THEN LET value == transaction[feature]
             stats == feature_stats[feature]
             a == RatioCheck(feature, value, stats)
             b == MaxCheck(feature, value, stats)
             c == NegativeCheck(feature, value)
         IN  IF a[2] # << >> THEN a ELSE IF b[2] # << >> THEN b ELSE c
    ELSE <<R(0), << >> >>

\* one iteration of the loop over the numeric features
FeatureCheck(feature, transaction, feature_stats) ==
    IF feature \in DOMAIN transaction /\ feature \in DOMAIN feature_stats
    THEN LET value == transaction[feature]
             stats == feature_stats[feature]
             a == RatioCheck(feature, value, stats)
             b == MaxCheck(feature, value, stats)
             c == NegativeCheck(feature, value)
         IN  <<RAdd(RAdd(a[1], b[1]), c[1]), a[2] \o b[2] \o c[2]>>
    ELSE <<R(0), << >> >>

RECURSIVE FeatureLoop(_, _, _)
FeatureLoop(k, transaction, feature_stats) ==
    IF k = 0 THEN <<R(0), << >> >>
    ELSE LET prev == FeatureLoop(k - 1, transaction, feature_stats)
             cur == FeatureCheck(NumericFeatures[k], transaction, feature_stats)
         IN  <<RAdd(prev[1], cur[1]), prev[2] \o cur[2]>>

\* variant: only a balance change larger than the amount is a mismatch
BalanceCheckOneSided(transaction) ==
    IF "oldbalanceOrg" \in DOMAIN transaction /\ "newbalanceOrig" \in DOMAIN transaction
    THEN LET old_balance == transaction.oldbalanceOrg
             new_balance == transaction.newbalanceOrig
             amount == IF "amount" \in DOMAIN transaction
                       THEN transaction.amount ELSE R(0)
         IN  IF RGt(RSub(RSub(old_balance, new_balance), amount),
                    RMul(Frac(1, 100), RMax(amount, R(1))))
             THEN <<R(3), <<<<"mismatch">>>> >>
             ELSE <<R(0), << >> >>
    ELSE <<R(0), << >> >>

\* the check for logical inconsistencies between the balances and the amount
BalanceCheck(transaction) ==
    IF "oldbalanceOrg" \in DOMAIN transaction /\ "newbalanceOrig" \in DOMAIN transaction
    THEN LET old_balance == transaction.oldbalanceOrg
             new_balance == transaction.newbalanceOrig
             amount == IF "amount" \in DOMAIN transaction
                       THEN transaction.amount ELSE R(0)
         IN  IF RGt(RAbs(RSub(RSub(old_balance, new_balance), amount)),
                    RMul(Frac(1, 100), RMax(amount, R(1))))
             THEN <<R(3), <<<<"mismatch">>>> >>
             ELSE <<R(0), << >> >>
    ELSE <<R(0), << >> >>

NoAnomalies == <<<<"none">>>>

\* variant: a score of exactly 5.0 already counts as anomalous
is_anomalousAtLeastFive(transaction, feature_stats) ==
    LET loop == FeatureLoop(Len(NumericFeatures), transaction, feature_stats)
        bal == BalanceCheck(transaction)
        anomaly_score == RAdd(loop[1], bal[1])
        reasons == loop[2] \o bal[2]
    IN  [is_anomalous |-> RLe(R(5), anomaly_score),
         anomaly_score |-> anomaly_score,
         reason |-> IF reasons # << >> THEN reasons ELSE NoAnomalies]

\* variant: the balance-consistency reason is put first
is_anomalousBalanceFirst(transaction, feature_stats) ==
    LET loop == FeatureLoop(Len(NumericFeatures), transaction, feature_stats)
        bal == BalanceCheck(transaction)
        anomaly_score == RAdd(loop[1], bal[1])
        reasons == bal[2] \o loop[2]
    IN  [is_anomalous |-> RGt(anomaly_score, R(5)),
         anomaly_score |-> anomaly_score,
         reason |-> IF reasons # << >> THEN reasons ELSE NoAnomalies]

\* variant: a transfer is given three more points
is_anomalousByType(transaction, feature_stats) ==
    LET loop == FeatureLoop(Len(NumericFeatures), transaction, feature_stats)
        bal == BalanceCheck(transaction)
        byType == IF "type" \in DOMAIN transaction /\ transaction["type"] = "TRANSFER"
                  THEN R(3) ELSE R(0)
        anomaly_score == RAdd(RAdd(loop[1], bal[1]), byType)
        reasons == loop[2] \o bal[2]
    IN  [is_anomalous |-> RGt(anomaly_score, R(5)),
         anomaly_score |-> anomaly_score,
         reason |-> IF reasons # << >> THEN reasons ELSE NoAnomalies]

\* is_anomalous(transaction) -> (is_anomalous, anomaly_score, reason)
is_anomalous(transaction, feature_stats) ==
    LET loop == FeatureLoop(Len(NumericFeatures), transaction, feature_stats)
        bal == BalanceCheck(transaction)
        anomaly_score == RAdd(loop[1], bal[1])
        reasons == loop[2] \o bal[2]
    IN  [is_anomalous |-> RGt(anomaly_score, R(5)),
         anomaly_score |-> anomaly_score,
         reason |-> IF reasons # << >> THEN reasons ELSE NoAnomalies]

(***************************************************************************)
(* preprocessing.py preprocess_transaction: the feature encoder.           *)
(***************************************************************************)
EncoderKeys ==
    {"step", "amount", "oldbalanceOrg", "newbalanceOrig", "oldbalanceDest", "newbalanceDest"}

\* a missing required key raises KeyError
EncoderRaises(transaction) == ~(EncoderKeys \subseteq DOMAIN transaction)

\* variant: the day is placed before the hour
preprocess_transactionDayFirst(transaction) ==
    LET hour == transaction.step % 24
        day == transaction.step \div 24
    IN  <<R(transaction.step),
          transaction.amount,
          transaction.oldbalanceOrg,
          transaction.newbalanceOrig,
          transaction.oldbalanceDest,
          transaction.newbalanceDest,
          R(day),
          R(hour),
          IF "isFlaggedFraud" \in DOMAIN transaction
          THEN R(transaction.isFlaggedFraud) ELSE R(0)>>

preprocess_transaction(transaction) ==
    LET hour == transaction.step % 24
        day == transaction.step \div 24
    IN  <<R(transaction.step),
          transaction.amount,
          transaction.oldbalanceOrg,
          transaction.newbalanceOrig,
          transaction.oldbalanceDest,
          transaction.newbalanceDest,
          R(hour),
          R(day),
          IF "isFlaggedFraud" \in DOMAIN transaction
          THEN R(transaction.isFlaggedFraud) ELSE R(0)>>

(***************************************************************************)
(* Inputs.  An input object is what a caller hands to predict: hasDict     *)
(* tells whether it offers the .dict() method of a schema Transaction, and *)
(* d is the dictionary that .dict() returns.                               *)
(***************************************************************************)
TxFields(id, step, amount, oldOrg, newOrig, oldDest, newDest, type, flag) ==
    [transaction_id |-> id, step |-> step, amount |-> amount,
     oldbalanceOrg |-> oldOrg, newbalanceOrig |-> newOrig,
     oldbalanceDest |-> oldDest, newbalanceDest |-> newDest,
     type |-> type, isFlaggedFraud |-> flag]

\* main.py EXAMPLE_TRANSACTIONS["legitimate_payment"]
LegitPayment ==
    [hasDict |-> TRUE,
     d |-> TxFields("TX123456789", 1, Frac(983964, 100), R(170136),
                    Frac(16029636, 100), R(0), R(0), "PAYMENT", 0)]

\* amount three times the 99th percentile, balances consistent
LargeTransfer ==
    [hasDict |-> TRUE,
     d |-> TxFields("TX2", 25, R(3335592), R(4000000), R(664408),
                    R(0), R(3335592), "TRANSFER", 1)]

\* amount far above the recorded maximum
HugeAmount ==
    [hasDict |-> TRUE,
     d |-> TxFields("TX3", 1, R(200000000), R(170136),
                    R(160296), R(0), R(0), "CASH_OUT", 0)]

\* balance change of 100 against an amount of 50
Mismatch ==
    [hasDict |-> TRUE,
     d |-> TxFields("TX4", 48, R(50), R(1000), R(900), R(0), R(0), "DEBIT", 0)]

\* a plain dictionary: it has no .dict() method
PlainDict ==
    [hasDict |-> FALSE, d |-> LegitPayment.d]

\* an object whose .dict() lacks the time step
NoStep ==
    [hasDict |-> TRUE,
     d |-> [amount |-> R(50), oldbalanceOrg |-> R(1000), newbalanceOrig |-> R(950),
            oldbalanceDest |-> R(0), newbalanceDest |-> R(0)]]

\* the objects handed to predict by the single-prediction requests
Transactions == {LegitPayment, LargeTransfer, NoStep}
\* the items of the lists handed to batch_predict(transactions: List[dict])
BatchItems == {LegitPayment, LargeTransfer, PlainDict}

(***************************************************************************)
(* The external collaborators, as the objects that _load_model can leave   *)
(* in self.scaler and self.model.                                          *)
(***************************************************************************)
None == [kind |-> "None"]
\* StandardScaler() / RandomForestClassifier() that were never fitted
UnfittedScaler == [kind |-> "unfitted"]
UnfittedModel == [kind |-> "unfitted"]

\* a scaler fitted on the nine features (centering only)
FittedScaler ==
    [kind |-> "fitted",
     mean |-> <<R(1), R(1000), R(0), R(0), R(0), R(0), R(1), R(0), R(0)>>]
\* a scaler fitted on another number of features: transform raises
WrongShapeScaler == [kind |-> "wrongshape"]

\* a fitted classifier: a decision stump on one scaled feature
Stump(lo, hi) ==
    [kind |-> "fitted", feature |-> 2, threshold |-> R(1000000),
     lo |-> lo, hi |-> hi]
\* a classifier fitted on one class only: predict_proba(..)[0][1] raises
OneClassModel == [kind |-> "oneclass"]

\* the (model, scaler) pairs the pickle files may hold
PickledPairs ==
    {<<Stump(R(0), R(1)), FittedScaler>>,
     <<Stump(Frac(7, 10), Frac(1, 2)), FittedScaler>>,
     <<Stump(R(0), R(1)), WrongShapeScaler>>,
     <<OneClassModel, FittedScaler>>}

ScalerRaises(s, x) == s.kind # "fitted"
\* self.scaler.transform([processed_data])
ScalerTransform(s, x) == [i \in DOMAIN x |-> RSub(x[i], s.mean[i])]

ModelRaises(m, x) == m.kind # "fitted"
\* self.model.predict_proba(scaled_data)[0][1]
ModelProba(m, x) == IF RGt(x[m.feature], m.threshold) THEN m.hi ELSE m.lo

(***************************************************************************)
(* State.                                                                  *)
(***************************************************************************)
\* FraudDetectionService.model
VARIABLE model
\* FraudDetectionService.scaler
VARIABLE scaler
\* preprocessing._feature_stats
VARIABLE feature_stats
\* how _load_model ended: "new" before the constructor ran
VARIABLE loadOutcome
\* the activations of predict, one per process
VARIABLE frame
\* the activation of batch_predict
VARIABLE batch
\* one run of the pure functions on one drawn input (used by SpecCore only)
VARIABLE probe

vars == <<model, scaler, feature_stats, loadOutcome, frame, batch, probe>>

\* process 0 is the predict call made by batch_predict for its current item,
\* processes 1..NRequests are the single-prediction requests
Requests == 1..NRequests
Procs == 0..NRequests

\* a Python value with its runtime type
Val(v, ty) == [v |-> v, ty |-> ty]

NoResult == [kind |-> "none"]
IdleFrame ==
    [pc |-> "idle", transaction |-> None, anomaly |-> None,
     processed_data |-> << >>, scaled_data |-> << >>, proba |-> None,
     result |-> NoResult]

\* the lists handed to batch_predict; a non-iterable argument has iterable FALSE
RECURSIVE SeqsUpTo(_, _)
SeqsUpTo(S, n) ==
    IF n = 0 THEN {<< >>}
    ELSE LET shorter == SeqsUpTo(S, n - 1)
         IN  shorter \cup {Append(q, x) : q \in {r \in shorter : Len(r) = n - 1}, x \in S}

BatchInputs ==
    {[iterable |-> TRUE, items |-> q] : q \in SeqsUpTo(BatchItems, MaxBatch)}
        \cup {[iterable |-> FALSE, items |-> << >>]}

IdleBatch ==
    [status |-> "idle", transactions |-> [iterable |-> TRUE, items |-> << >>],
     i |-> 1, results |-> << >>, http |-> 0]

\* no pure-function run is in progress in the service specification
NoProbe == [phase |-> "none"]

Init ==
    /\ model = None
    /\ scaler = None
    /\ feature_stats = DefaultFeatureStats
    /\ loadOutcome = "new"
    /\ frame = [p \in Procs |-> IdleFrame]
    /\ batch = IdleBatch
    /\ probe = NoProbe

(***************************************************************************)
(* prediction.py __init__ and _load_model.  outcome is "loaded" when both  *)
(* files exist and unpickle, "missing" when a file does not exist and      *)
(* "raised" when loading raises.                                           *)
(***************************************************************************)
\* variant: when loading raises, model and scaler are left as __init__ set them
LoadedStateLeavesNone(outcome, pair) ==
    IF outcome = "loaded"
    THEN [model |-> pair[1], scaler |-> pair[2]]
    ELSE IF outcome = "missing"
    THEN [model |-> UnfittedModel, scaler |-> UnfittedScaler]
    ELSE [model |-> None, scaler |-> None]

LoadedState(outcome, pair) ==
    IF outcome = "loaded"
    THEN [model |-> pair[1], scaler |-> pair[2]]
    ELSE [model |-> UnfittedModel, scaler |-> UnfittedScaler]

Construct(outcome, pair) ==
    /\ loadOutcome = "new"
    /\ model' = LoadedState(outcome, pair).model
    /\ scaler' = LoadedState(outcome, pair).scaler
    /\ loadOutcome' = outcome
    /\ UNCHANGED <<feature_stats, frame, batch, probe>>

(***************************************************************************)
(* prediction.py predict, step by step.                                    *)
(***************************************************************************)
\* the result of the outermost except branch
LastResort(err) ==
    [fraud_probability |-> Val(Frac(1, 10), "float"),
     is_fraud |-> Val(FALSE, "bool"),
     confidence_score |-> Val(Frac(8, 10), "float"),
     is_anomalous |-> Val(FALSE, "bool"),
     anomaly_reason |-> Val(<<<<"error", err>>>>, "str")]

\* a result whose reason field documents a failure
IsFailure(result) ==
    Len(result.anomaly_reason.v) = 1 /\ result.anomaly_reason.v[1][1] = "error"

\* the result of the 'model or scaler not loaded' branch
NotLoadedResult(anomaly) ==
    [fraud_probability |-> Val(Frac(1, 10), "float"),
     is_fraud |-> Val(FALSE, "bool"),
     confidence_score |-> Val(Frac(8, 10), "float"),
     is_anomalous |-> Val(anomaly.is_anomalous, "bool"),
     anomaly_reason |-> Val(IF anomaly.is_anomalous THEN anomaly.reason ELSE << >>, "str")]

\* variant: the damped confidence is not floored at 0.1
ConfidenceNoFloor(proba, anomaly) ==
    LET base == Val(RMul(RAbs(RSub(proba.v, Frac(1, 2))), R(2)), proba.ty)
        damped == RMul(base.v,
                       RSub(R(1), RMin(RDiv(anomaly.anomaly_score, R(50)), Frac(9, 10))))
    IN  IF anomaly.is_anomalous THEN Val(damped, proba.ty) ELSE base

\* variant: the damping is applied whether or not the transaction is anomalous
ConfidenceDampsAlways(proba, anomaly) ==
    LET base == Val(RMul(RAbs(RSub(proba.v, Frac(1, 2))), R(2)), proba.ty)
        damped == RMul(base.v,
                       RSub(R(1), RMin(RDiv(anomaly.anomaly_score, R(50)), Frac(9, 10))))
    IN  IF RGt(damped, Frac(1, 10))
        THEN Val(damped, proba.ty) ELSE Val(Frac(1, 10), "float")

\* variant: the anomaly severity raises the confidence
ConfidenceAmplifies(proba, anomaly) ==
    LET base == Val(RMul(RAbs(RSub(proba.v, Frac(1, 2))), R(2)), proba.ty)
        raised == RMul(base.v,
                       RAdd(R(1), RMin(RDiv(anomaly.anomaly_score, R(50)), Frac(9, 10))))
    IN  IF anomaly.is_anomalous
        THEN IF RGt(raised, Frac(1, 10))
             THEN Val(raised, proba.ty) ELSE Val(Frac(1, 10), "float")
        ELSE base

\* the confidence adjustment
Confidence(proba, anomaly) ==
    LET base == Val(RMul(RAbs(RSub(proba.v, Frac(1, 2))), R(2)), proba.ty)
        damped == RMul(base.v,
                       RSub(R(1), RMin(RDiv(anomaly.anomaly_score, R(50)), Frac(9, 10))))
    IN  IF anomaly.is_anomalous
        THEN IF RGt(damped, Frac(1, 10))
             THEN Val(damped, proba.ty) ELSE Val(Frac(1, 10), "float")
        ELSE base

\* variant: the normal return passes the detector's reason on unconditionally
PredictionResultKeepsReason(proba, anomaly) ==
    [fraud_probability |-> Val(proba.v, "float"),
     is_fraud |-> Val(RGt(proba.v, Frac(1, 2)),
                      IF proba.ty = "numpy.float64" THEN "numpy.bool_" ELSE "bool"),
     confidence_score |-> Val(Confidence(proba, anomaly).v, "float"),
     is_anomalous |-> Val(anomaly.is_anomalous, "bool"),
     anomaly_reason |-> Val(anomaly.reason, "str")]

\* variant: a probability of exactly 0.5 is classified as fraud
PredictionResultAtLeastHalf(proba, anomaly) ==
    [fraud_probability |-> Val(proba.v, "float"),
     is_fraud |-> Val(RLe(Frac(1, 2), proba.v),
                      IF proba.ty = "numpy.float64" THEN "numpy.bool_" ELSE "bool"),
     confidence_score |-> Val(Confidence(proba, anomaly).v, "float"),
     is_anomalous |-> Val(anomaly.is_anomalous, "bool"),
     anomaly_reason |-> Val(IF anomaly.is_anomalous THEN anomaly.reason ELSE << >>, "str")]

\* the result of the normal return
PredictionResult(proba, anomaly) ==
    [fraud_probability |-> Val(proba.v, "float"),
     is_fraud |-> Val(RGt(proba.v, Frac(1, 2)),
                      IF proba.ty = "numpy.float64" THEN "numpy.bool_" ELSE "bool"),
     confidence_score |-> Val(Confidence(proba, anomaly).v, "float"),
     is_anomalous |-> Val(anomaly.is_anomalous, "bool"),
     anomaly_reason |-> Val(IF anomaly.is_anomalous THEN anomaly.reason ELSE << >>, "str")]

\* the substitute probability of the inner except branch
FallbackProba == Val(Frac(1, 10), "float")

\* the probability predict goes on with: the classifier's, or the substitute
\* when scaling or scoring raised
InferredProba(m, s, processed_data) ==
    IF ScalerRaises(s, processed_data) THEN FallbackProba
    ELSE LET scaled_data == ScalerTransform(s, processed_data)
         IN  IF ModelRaises(m, scaled_data) THEN FallbackProba
             ELSE Val(ModelProba(m, scaled_data), "numpy.float64")

\* predict(transaction) run alone, from entry to return, on a service whose
\* model, scaler and statistics are m, s and fs
predict(transaction, m, s, fs) ==
    IF ~transaction.hasDict THEN LastResort("no attribute dict")
    ELSE IF EncoderRaises(transaction.d) THEN LastResort("KeyError")
    ELSE LET anomaly == is_anomalous(transaction.d, fs)
             processed_data == preprocess_transaction(transaction.d)
         IN  IF m = None \/ s = None THEN NotLoadedResult(anomaly)
             ELSE PredictionResult(InferredProba(m, s, processed_data), anomaly)

\* the frame once predict has returned result: the locals are gone
ReturnedWith(f, result) ==
    [IdleFrame EXCEPT !.pc = "done", !.transaction = f.transaction, !.result = result]

\* the frame once the confidence is adjusted and the result returned
Returned(f, proba) == ReturnedWith(f, PredictionResult(proba, f.anomaly))

Constructed == loadOutcome # "new"

\* a request calls fraud_service.predict(transaction)
PredictCall(c, t) ==
    /\ Constructed
    /\ frame[c].pc \in {"idle", "done"}
    /\ frame' = [frame EXCEPT ![c] = [IdleFrame EXCEPT !.pc = "enter", !.transaction = t]]
    /\ UNCHANGED <<model, scaler, feature_stats, loadOutcome, batch, probe>>

\* variant: the KeyError of the encoder leaves predict instead of being caught
PredictEnterPropagates(p) ==
    /\ frame[p].pc = "enter"
    /\ LET f == frame[p]
           t == f.transaction
       IN  frame' = [frame EXCEPT ![p] =
              IF ~t.hasDict
              THEN ReturnedWith(f, LastResort("no attribute dict"))
              ELSE IF EncoderRaises(t.d)
              THEN [f EXCEPT !.pc = "raised",
                             !.anomaly = is_anomalous(t.d, feature_stats)]
              ELSE [f EXCEPT !.pc = "check",
                             !.anomaly = is_anomalous(t.d, feature_stats),
                             !.processed_data = preprocess_transaction(t.d)]]
    /\ UNCHANGED <<model, scaler, feature_stats, loadOutcome, batch, probe>>

\* variant: the detector records the largest amount seen as the new 99th
\* percentile of the shared statistics table
PredictEnterLearns(p) ==
    /\ frame[p].pc = "enter"
    /\ LET f == frame[p]
           t == f.transaction
       IN  /\ frame' = [frame EXCEPT ![p] =
                 IF ~t.hasDict
                 THEN ReturnedWith(f, LastResort("no attribute dict"))
                 ELSE IF EncoderRaises(t.d)
                 THEN ReturnedWith(f, LastResort("KeyError"))
                 ELSE [f EXCEPT !.pc = "check",
                                !.anomaly = is_anomalous(t.d, feature_stats),
                                !.processed_data = preprocess_transaction(t.d)]]
           /\ feature_stats' =
                 IF t.hasDict /\ "amount" \in DOMAIN t.d
                 THEN [feature_stats EXCEPT
                          !.amount.q99 = RMax(feature_stats.amount.q99, t.d.amount)]
                 ELSE feature_stats
    /\ UNCHANGED <<model, scaler, loadOutcome, batch, probe>>

\* transaction.dict(), is_anomalous and preprocess_transaction
PredictEnter(p) ==
    /\ frame[p].pc = "enter"
    /\ LET f == frame[p]
           t == f.transaction
       IN  frame' = [frame EXCEPT ![p] =
              IF ~t.hasDict
              THEN ReturnedWith(f, LastResort("no attribute dict"))
              ELSE IF EncoderRaises(t.d)
              THEN ReturnedWith(f, LastResort("KeyError"))
              ELSE [f EXCEPT !.pc = "check",
                             !.anomaly = is_anomalous(t.d, feature_stats),
                             !.processed_data = preprocess_transaction(t.d)]]
    /\ UNCHANGED <<model, scaler, feature_stats, loadOutcome, batch, probe>>

\* if self.model is None or self.scaler is None
PredictCheckLoaded(p) ==
    /\ frame[p].pc = "check"
    /\ LET f == frame[p]
       IN  frame' = [frame EXCEPT ![p] =
              IF model = None \/ scaler = None
              THEN ReturnedWith(f, NotLoadedResult(f.anomaly))
              ELSE [f EXCEPT !.pc = "scale"]]
    /\ UNCHANGED <<model, scaler, feature_stats, loadOutcome, batch, probe>>

\* variant: no inner handler, a raising transform reaches the outermost one
PredictScaleNoInnerHandler(p) ==
    /\ frame[p].pc = "scale"
    /\ LET f == frame[p]
       IN  frame' = [frame EXCEPT ![p] =
              IF ScalerRaises(scaler, f.processed_data)
              THEN ReturnedWith(f, LastResort("transform failed"))
              ELSE [f EXCEPT !.pc = "proba",
                             !.scaled_data = ScalerTransform(scaler, f.processed_data)]]
    /\ UNCHANGED <<model, scaler, feature_stats, loadOutcome, batch, probe>>

\* variant: the inner handler replaces a failing scaler by a fresh one
PredictScaleRefits(p) ==
    /\ frame[p].pc = "scale"
    /\ LET f == frame[p]
       IN  /\ frame' = [frame EXCEPT ![p] =
                 IF ScalerRaises(scaler, f.processed_data)
                 THEN Returned(f, FallbackProba)
                 ELSE [f EXCEPT !.pc = "proba",
                                !.scaled_data = ScalerTransform(scaler, f.processed_data)]]
           /\ scaler' = IF ScalerRaises(scaler, f.processed_data)
                        THEN UnfittedScaler ELSE scaler
    /\ UNCHANGED <<model, feature_stats, loadOutcome, batch, probe>>

\* scaled_data = self.scaler.transform([processed_data]); when it raises, the
\* inner handler, the confidence adjustment and the return
PredictScale(p) ==
    /\ frame[p].pc = "scale"
    /\ LET f == frame[p]
       IN  frame' = [frame EXCEPT ![p] =
              IF ScalerRaises(scaler, f.processed_data)
              THEN Returned(f, FallbackProba)
              ELSE [f EXCEPT !.pc = "proba",
                             !.scaled_data = ScalerTransform(scaler, f.processed_data)]]
    /\ UNCHANGED <<model, scaler, feature_stats, loadOutcome, batch, probe>>

\* variant: the inner handler marks a failing classifier as not loaded
PredictProbaMarksUnavailable(p) ==
    /\ frame[p].pc = "proba"
    /\ LET f == frame[p]
       IN  /\ frame' = [frame EXCEPT ![p] =
                 IF ModelRaises(model, f.scaled_data)
                 THEN Returned(f, FallbackProba)
                 ELSE Returned(f, Val(ModelProba(model, f.scaled_data), "numpy.float64"))]
           /\ model' = IF ModelRaises(model, f.scaled_data) THEN None ELSE model
    /\ UNCHANGED <<scaler, feature_stats, loadOutcome, batch, probe>>

\* proba = self.model.predict_proba(scaled_data)[0][1] or the inner handler,
\* then the confidence adjustment and the return
PredictProba(p) ==
    /\ frame[p].pc = "proba"
    /\ LET f == frame[p]
       IN  frame' = [frame EXCEPT ![p] =
              IF ModelRaises(model, f.scaled_data)
              THEN Returned(f, FallbackProba)
              ELSE Returned(f, Val(ModelProba(model, f.scaled_data), "numpy.float64"))]
    /\ UNCHANGED <<model, scaler, feature_stats, loadOutcome, batch, probe>>

(***************************************************************************)
(* prediction.py batch_predict and the /batch_predict endpoint of main.py. *)
(***************************************************************************)
\* variant: is_anomalous is read under a key the result does not have, so
\* that result.get falls back to its default
NativeResultDefaults(result) ==
    [fraud_probability |-> Val(result.fraud_probability.v, "float"),
     is_fraud |-> Val(result.is_fraud.v, "bool"),
     confidence_score |-> Val(result.confidence_score.v, "float"),
     is_anomalous |-> Val(FALSE, "bool"),
     anomaly_reason |-> Val(result.anomaly_reason.v, "str")]

\* float(..), bool(..) and str(..) of the fields of one result
NativeResult(result) ==
    [fraud_probability |-> Val(result.fraud_probability.v, "float"),
     is_fraud |-> Val(result.is_fraud.v, "bool"),
     confidence_score |-> Val(result.confidence_score.v, "float"),
     is_anomalous |-> Val(result.is_anomalous.v, "bool"),
     anomaly_reason |-> Val(result.anomaly_reason.v, "str")]

\* main.py batch_predict: one PredictionResponse per result, or status 500
BatchResponse(results) == [code |-> 200, predictions |-> results]
BatchError == [code |-> 500, predictions |-> << >>]
NoResponse == [code |-> 0, predictions |-> << >>]

\* the endpoint calls fraud_service.batch_predict(transactions); iterating a
\* non-iterable argument raises, which is re-raised as the batch-level error
BatchCall(input) ==
    /\ Constructed
    /\ batch.status # "running"
    /\ frame[0].pc = "idle"
    /\ batch' = IF input.iterable
                THEN [status |-> "running", transactions |-> input, i |-> 1,
                      results |-> << >>, http |-> NoResponse]
                ELSE [status |-> "raised", transactions |-> input, i |-> 1,
                      results |-> << >>, http |-> BatchError]
    /\ UNCHANGED <<model, scaler, feature_stats, loadOutcome, frame, probe>>

\* result = self.predict(transaction) for the next item of the loop
BatchPredict ==
    /\ batch.status = "running"
    /\ frame[0].pc = "idle"
    /\ batch.i <= Len(batch.transactions.items)
    /\ frame' = [frame EXCEPT ![0] =
          [IdleFrame EXCEPT !.pc = "enter",
                            !.transaction = batch.transactions.items[batch.i]]]
    /\ UNCHANGED <<model, scaler, feature_stats, loadOutcome, batch, probe>>

\* variant: each result is inserted at the front of the list
BatchAppendPrepends ==
    /\ batch.status = "running"
    /\ frame[0].pc = "done"
    /\ batch' = [batch EXCEPT !.results = <<NativeResult(frame[0].result)>> \o batch.results,
                              !.i = batch.i + 1]
    /\ frame' = [frame EXCEPT ![0] = IdleFrame]
    /\ UNCHANGED <<model, scaler, feature_stats, loadOutcome, probe>>

\* variant: an item whose prediction failed aborts the whole batch
BatchAppendAborts ==
    /\ batch.status = "running"
    /\ frame[0].pc = "done"
    /\ batch' = IF IsFailure(frame[0].result)
                THEN [batch EXCEPT !.status = "raised", !.http = BatchError]
                ELSE [batch EXCEPT !.results = Append(batch.results,
                                                      NativeResult(frame[0].result)),
                                   !.i = batch.i + 1]
    /\ frame' = [frame EXCEPT ![0] = IdleFrame]
    /\ UNCHANGED <<model, scaler, feature_stats, loadOutcome, probe>>

\* results.append({...}) once predict has returned
BatchAppend ==
    /\ batch.status = "running"
    /\ frame[0].pc = "done"
    /\ batch' = [batch EXCEPT !.results = Append(batch.results, NativeResult(frame[0].result)),
                              !.i = batch.i + 1]
    /\ frame' = [frame EXCEPT ![0] = IdleFrame]
    /\ UNCHANGED <<model, scaler, feature_stats, loadOutcome, probe>>

\* return results, and the endpoint's response
BatchReturn ==
    /\ batch.status = "running"
    /\ frame[0].pc = "idle"
    /\ batch.i > Len(batch.transactions.items)
    /\ batch' = [batch EXCEPT !.status = "returned",
                              !.http = BatchResponse(batch.results)]
    /\ UNCHANGED <<model, scaler, feature_stats, loadOutcome, frame, probe>>

LoadOutcomes == {"loaded", "missing", "raised"}

Next ==
    \/ \E outcome \in LoadOutcomes, pair \in PickledPairs : Construct(outcome, pair)
    \/ \E c \in Requests, t \in Transactions : PredictCall(c, t)
    \/ \E p \in Procs : PredictEnter(p)
    \/ \E p \in Procs : PredictCheckLoaded(p)
    \/ \E p \in Procs : PredictScale(p)
    \/ \E p \in Procs : PredictProba(p)
    \/ \E input \in BatchInputs : BatchCall(input)
    \/ BatchPredict
    \/ BatchAppend
    \/ BatchReturn

Spec == Init /\ [][Next]_vars

(***************************************************************************)
(* schemas/transaction.py and main.py: the /predict endpoint.  A request   *)
(* body is the record of the fields that were posted.                      *)
(***************************************************************************)
TransactionType == {"PAYMENT", "TRANSFER", "CASH_OUT", "DEBIT", "CASH_IN"}

RequiredFields ==
    {"step", "amount", "oldbalanceOrg", "newbalanceOrig", "oldbalanceDest",
     "newbalanceDest", "type"}

\* variant: the schema carries no range constraints
StructurallyValidNoRanges(body) ==
    /\ RequiredFields \subseteq DOMAIN body
    /\ body.type \in TransactionType

\* the body passes the validation of the Transaction schema
StructurallyValid(body) ==
    /\ RequiredFields \subseteq DOMAIN body
    /\ body.step >= 0
    /\ RGt(body.amount, R(0))
    /\ \A k \in {"oldbalanceOrg", "newbalanceOrig", "oldbalanceDest", "newbalanceDest"} :
           RLe(R(0), body[k])
    /\ body.type \in TransactionType
    /\ "isFlaggedFraud" \in DOMAIN body => body.isFlaggedFraud \in {0, 1}

\* the Transaction object built from a valid body: absent optional fields
\* take their defaults
Transaction(body) ==
    [hasDict |-> TRUE,
     d |-> [k \in DOMAIN body \cup {"transaction_id", "isFlaggedFraud"} |->
               IF k \in DOMAIN body THEN body[k]
               ELSE IF k = "isFlaggedFraud" THEN 0 ELSE "None"]]

\* PredictionResponse(...): the response model converts the values it is
\* given to its declared field types
PredictionResponse(result) ==
    [fraud_probability |-> Val(result.fraud_probability.v, "float"),
     is_fraud |-> Val(result.is_fraud.v, "bool"),
     confidence_score |-> Val(result.confidence_score.v, "float"),
     is_anomalous |-> Val(result.is_anomalous.v, "bool"),
     anomaly_reason |-> Val(result.anomaly_reason.v, "str")]

\* result["fraud_probability"], result["is_fraud"] or
\* result["confidence_score"] raises KeyError
ResponseRaises(result) ==
    ~({"fraud_probability", "is_fraud", "confidence_score"} \subseteq DOMAIN result)

\* the answers without a prediction; invoked tells whether the handler, and
\* so predict, ran
Unprocessable == [code |-> 422, invoked |-> FALSE, content |-> NoResult]
ServerError == [code |-> 500, invoked |-> TRUE, content |-> NoResult]

\* the return statement of the handler of POST /predict, once predict has
\* returned result; an exception is answered with 500
PredictFraudReturn(result) ==
    IF ResponseRaises(result) THEN ServerError
    ELSE [code |-> 200, invoked |-> TRUE, content |-> PredictionResponse(result)]

(***************************************************************************)
(* The pure functions on their own: is_anomalous, preprocess_transaction,  *)
(* predict run alone and the /predict endpoint, each applied once to an    *)
(* input drawn from the sets below.                                        *)
(***************************************************************************)
\* the steps drawn for the encoder are 0..MaxStep
MaxStep == 49
\* the classifier probabilities drawn are the multiples of 1/ProbSteps
ProbSteps == 20

AmountGrid ==
    {R(50), R(208), R(1111864), R(1667796), R(2779660), R(3335592), R(200000000)}
OldOrgGrid ==
    {R(0), R(1000), R(107360), R(4000000), R(8940000), R(200000000), R(0 - 100)}
NewOrigGrid ==
    {R(0), R(900), R(950), R(107152), R(664408), R(1220340), R(2332204),
     R(7828136), R(9253364), R(0 - 100)}
OldDestGrid == {R(0), R(324784), R(14239246)}
NewDestGrid == {R(0), R(417334), R(14928629), R(400000000)}

\* bodies that vary the five numeric fields
MoneyBodies ==
    {TxFields("TX", 1, a, oo, no, od, nd, "PAYMENT", 0) :
        a \in AmountGrid, oo \in OldOrgGrid, no \in NewOrigGrid,
        od \in OldDestGrid, nd \in NewDestGrid}

\* a record without its isFlaggedFraud key
WithoutFlag(d) == [k \in DOMAIN d \ {"isFlaggedFraud"} |-> d[k]]

\* bodies that vary the step and the system flag
StepBodies ==
    LET flagged == {TxFields("TX", st, R(50), R(1000), R(950), R(0), R(0), "TRANSFER", fl) :
                       st \in 0..MaxStep, fl \in {0, 1}}
    IN  flagged \cup {WithoutFlag(d) : d \in flagged}

\* bodies the schema rejects: a type outside the enumeration, a flag outside
\* 0..1, a negative step, and a missing step
InvalidBodies ==
    {TxFields("TX", 1, R(50), R(1000), R(950), R(0), R(0), "WIRE", 0),
     TxFields("TX", 1, R(50), R(1000), R(950), R(0), R(0), "PAYMENT", 2),
     TxFields("TX", 0 - 1, R(50), R(1000), R(950), R(0), R(0), "PAYMENT", 0),
     NoStep.d}

\* the scenario payloads and one body per anomaly-score level
ScenarioBodies ==
    {LegitPayment.d, LargeTransfer.d, HugeAmount.d, Mismatch.d,
     TxFields("TX5", 1, R(2779660), R(4000000), R(1220340), R(0), R(0), "CASH_OUT", 0),
     TxFields("TX6", 1, R(50), R(200000000), R(9253364), R(0), R(0), "CASH_IN", 0)}

\* a body with the five numeric fields given and the rest fixed
Money(a, oo, no, od, nd) == TxFields("TX", 1, a, oo, no, od, nd, "PAYMENT", 0)

\* bodies at the edges of the detector's rules: an amount below 1 inside and
\* outside the balance tolerance; a ratio of 1.35 and of 1.75; each field
\* exactly at and just above its recorded maximum; each field negative
RuleBodies ==
    {Money(Frac(1, 2), R(1000), Frac(999492, 1000), R(0), R(0)),
     Money(Frac(1, 2), R(1000), Frac(99948, 100), R(0), R(0)),
     Money(R(1500000), R(4000000), R(2500000), R(0), R(0)),
     Money(R(1945762), R(4000000), R(2054238), R(0), R(0)),
     Money(R(92445516), R(4000000), R(0), R(0), R(0)),
     Money(R(92445517), R(1000), R(950), R(0), R(0)),
     Money(R(50), R(59585040), R(0), R(0), R(0)),
     Money(R(50), R(59600000), R(0), R(0), R(0)),
     Money(R(50), R(1000), R(49585040), R(0), R(0)),
     Money(R(50), R(1000), R(50893502), R(0), R(0)),
     Money(R(50), R(1000), R(950), R(356015089), R(0)),
     Money(R(50), R(1000), R(950), R(356015090), R(0)),
     Money(R(50), R(1000), R(950), R(0), R(356179278)),
     Money(R(50), R(1000), R(950), R(0), R(356179279)),
     Money(R(0 - 100), R(1000), R(950), R(0), R(0)),
     Money(R(50), R(1000), R(950), R(0 - 100), R(0)),
     Money(R(50), R(1000), R(950), R(0), R(0 - 100)),
     Money(R(0 - 100), R(0 - 100), R(0 - 100), R(0 - 100), R(0 - 100))}

\* a classifier that gives every transaction the fraud probability k/ProbSteps
ConstantModel(k) == Stump(Frac(k, ProbSteps), Frac(k, ProbSteps))

\* the states of the classifier and the scaler
ServiceStates ==
    {<<ConstantModel(k), FittedScaler>> : k \in 0..ProbSteps}
        \cup PickledPairs
        \cup {<<UnfittedModel, UnfittedScaler>>, <<None, None>>,
              <<None, FittedScaler>>, <<Stump(R(0), R(1)), None>>}

ProbeInputs ==
    {[body |-> b, model |-> Stump(R(0), R(1)), scaler |-> FittedScaler] :
        b \in MoneyBodies \cup StepBodies \cup RuleBodies}
    \cup {[body |-> b, model |-> ms[1], scaler |-> ms[2]] :
             b \in ScenarioBodies \cup InvalidBodies, ms \in ServiceStates}

NewProbe(in) ==
    [phase |-> "input", body |-> in.body, model |-> in.model, scaler |-> in.scaler,
     out |-> NoResult]

InitCore ==
    /\ model = None
    /\ scaler = None
    /\ feature_stats = DefaultFeatureStats
    /\ loadOutcome = "new"
    /\ frame = [p \in Procs |-> IdleFrame]
    /\ batch = IdleBatch
    /\ probe \in {NewProbe(in) : in \in ProbeInputs}

Untouched == UNCHANGED <<model, scaler, feature_stats, loadOutcome, frame, batch>>

\* is_anomalous(body)
ProbeDetect ==
    /\ probe.phase = "input"
    /\ probe' = [probe EXCEPT !.phase = "detected",
                              !.out = is_anomalous(probe.body, feature_stats)]
    /\ Untouched

\* preprocess_transaction(body); a KeyError leaves no vector
ProbeEncode ==
    /\ probe.phase = "input"
    /\ probe' = [probe EXCEPT !.phase = "encoded",
                              !.out = IF EncoderRaises(probe.body)
                                      THEN [raised |-> TRUE, features |-> << >>]
                                      ELSE [raised |-> FALSE,
                                            features |-> preprocess_transaction(probe.body)]]
    /\ Untouched

\* predict is called: directly by a caller, with the record as the object's
\* fields, or by the handler predict_fraud, with the validated transaction
ProbePredict ==
    /\ probe.phase \in {"input", "validated"}
    /\ probe' = [probe EXCEPT
                    !.phase = IF probe.phase = "input" THEN "predicted" ELSE "handled",
                    !.out = predict(IF probe.phase = "input"
                                    THEN [hasDict |-> TRUE, d |-> probe.body]
                                    ELSE probe.out,
                                    probe.model, probe.scaler, feature_stats)]
    /\ Untouched

\* POST /predict with the body: the framework validates the body against
\* the Transaction schema before it enters the handler, and answers 422
\* itself when the body is rejected
ProbeValidate ==
    /\ probe.phase = "input"
    /\ probe' = IF StructurallyValid(probe.body)
                THEN [probe EXCEPT !.phase = "validated", !.out = Transaction(probe.body)]
                ELSE [probe EXCEPT !.phase = "responded", !.out = Unprocessable]
    /\ Untouched

\* the handler predict_fraud builds its response from the result of predict
ProbeRespond ==
    /\ probe.phase = "handled"
    /\ probe' = [probe EXCEPT !.phase = "responded",
                              !.out = PredictFraudReturn(probe.out)]
    /\ Untouched

NextCore ==
    \/ ProbeDetect
    \/ ProbeEncode
    \/ ProbePredict
    \/ ProbeValidate
    \/ ProbeRespond

SpecCore == InitCore /\ [][NextCore]_vars

(***************************************************************************)
(* Properties.                                                             *)
(***************************************************************************)
Done(p) == frame[p].pc = "done"
\* a record that passes .dict(), the detector and the encoder
WellFormed(t) == t.hasDict /\ ~EncoderRaises(t.d)
IsResult(r) ==
    DOMAIN r = {"fraud_probability", "is_fraud", "confidence_score",
                "is_anomalous", "anomaly_reason"}
IsErrorReason(v) == Len(v) = 1 /\ v[1][1] = "error"
\* Python == on two results, field by field
SameValues(r1, r2) ==
    /\ r1.fraud_probability.v = r2.fraud_probability.v
    /\ r1.is_fraud.v = r2.is_fraud.v
    /\ r1.confidence_score.v = r2.confidence_score.v
    /\ r1.is_anomalous.v = r2.is_anomalous.v
    /\ r1.anomaly_reason.v = r2.anomaly_reason.v
\* the last-resort values: 0.1, false, 0.8, false and an error description
IsLastResort(r) ==
    /\ r.fraud_probability.v = Frac(1, 10)
    /\ r.is_fraud.v = FALSE
    /\ r.confidence_score.v = Frac(8, 10)
    /\ r.is_anomalous.v = FALSE
    /\ IsErrorReason(r.anomaly_reason.v)
\* the inner scaling/scoring handler is entered: both objects are set and
\* the transform or the probability call raises
InferenceFails == model # None /\ scaler # None /\
                  (scaler.kind # "fitted" \/ model.kind # "fitted")

\* C1: predict never propagates an exception.  Every activation of predict
\* is at one of its steps or has returned, never left by an exception; once
\* it has returned it holds a result, and when .dict() or the encoder raised
\* (an exception outside the not-loaded branch and the inner handler) the
\* result is exactly 0.1 / false / 0.8 / false with an error description.
C1_PredictNeverRaises ==
    \A p \in Procs :
        /\ frame[p].pc \in {"idle", "enter", "check", "scale", "proba", "done"}
        /\ Done(p) =>
              /\ IsResult(frame[p].result)
              /\ ~WellFormed(frame[p].transaction) => IsLastResort(frame[p].result)

C1_Witness ==
    \E p \in Procs :
        /\ Done(p)
        /\ frame[p].transaction.hasDict
        /\ EncoderRaises(frame[p].transaction.d)
        /\ IsLastResort(frame[p].result)

\* C2: when loading failed at startup (files missing, or loading raised),
\* every returned prediction of a well-formed transaction, anomalous or not,
\* has probability 0.1, is_fraud false and confidence exactly 0.8, with
\* is_anomalous that of the detector.
C2_LoadFailureFixedResult ==
    \A p \in Procs :
        (Done(p) /\ loadOutcome \in {"missing", "raised"}
                 /\ WellFormed(frame[p].transaction)) =>
            /\ frame[p].result.fraud_probability.v = Frac(1, 10)
            /\ frame[p].result.is_fraud.v = FALSE
            /\ frame[p].result.confidence_score.v = Frac(8, 10)
            /\ frame[p].result.is_anomalous.v =
                   is_anomalous(frame[p].transaction.d, feature_stats).is_anomalous

\* C3: when the scaler transform or the classifier probability call raises,
\* the call still returns: probability 0.1, is_fraud false, confidence 0.8
\* when the transaction is not anomalous and
\* max(0.1, 0.8 * (1 - min(score / 50, 0.9))) when it is, is_anomalous that
\* of the detector, and anomaly_reason the detector's reason when anomalous
\* (the empty string otherwise).
C3_InferenceFailureFallback ==
    \A p \in Procs :
        (Done(p) /\ InferenceFails /\ WellFormed(frame[p].transaction)) =>
            LET r == frame[p].result
                a == is_anomalous(frame[p].transaction.d, feature_stats)
                damped == RMax(Frac(1, 10),
                               RMul(Frac(8, 10),
                                    RSub(R(1), RMin(RDiv(a.anomaly_score, R(50)),
                                                    Frac(9, 10)))))
            IN  /\ r.fraud_probability.v = Frac(1, 10)
                /\ r.is_fraud.v = FALSE
                /\ r.confidence_score.v = IF a.is_anomalous THEN damped ELSE Frac(8, 10)
                /\ r.is_anomalous.v = a.is_anomalous
                /\ r.anomaly_reason.v = IF a.is_anomalous THEN a.reason ELSE << >>

C3_Witness ==
    \E p \in Procs :
        /\ Done(p)
        /\ InferenceFails
        /\ loadOutcome = "loaded"
        /\ WellFormed(frame[p].transaction)
        /\ frame[p].result.is_anomalous.v
        /\ frame[p].result.confidence_score.v = Frac(704, 1000)

\* C4: in every returned result, of predict and of batch_predict, the
\* confidence is in [0.1, 1] when is_anomalous is true and in [0, 1] when it
\* is false.
ConfidenceInRange(r) ==
    /\ RLe(r.confidence_score.v, R(1))
    /\ IF r.is_anomalous.v
       THEN RLe(Frac(1, 10), r.confidence_score.v)
       ELSE RLe(R(0), r.confidence_score.v)

C4_ConfidenceRange ==
    /\ \A p \in Procs : Done(p) => ConfidenceInRange(frame[p].result)
    /\ \A k \in 1..Len(batch.results) : ConfidenceInRange(batch.results[k])

C4_Witness ==
    \E p \in Procs :
        /\ Done(p)
        /\ frame[p].result.is_anomalous.v
        /\ frame[p].result.fraud_probability.v = Frac(1, 2)
        /\ frame[p].result.confidence_score.v = Frac(1, 10)

\* C5: the k-th result of batch_predict equals, field by field, the result
\* that a single predict call returned for the same transaction.
C5_BatchEqualsSingle ==
    \A k \in 1..Len(batch.results) : \A c \in Requests :
        (Done(c) /\ frame[c].transaction = batch.transactions.items[k]) =>
            SameValues(batch.results[k], frame[c].result)

C5_Witness ==
    \E c \in Requests :
        /\ batch.status = "returned"
        /\ Len(batch.results) = 2
        /\ Done(c)
        /\ frame[c].transaction = batch.transactions.items[2]
        /\ frame[c].transaction # batch.transactions.items[1]
        /\ frame[c].result.is_anomalous.v
        /\ frame[c].result.is_fraud.ty = "numpy.bool_"

C7_ItemFailureKeepsBatch ==
    LET items == batch.transactions.items
    IN  /\ batch.status = "raised" =>
              (~batch.transactions.iterable /\ batch.http.code = 500)
        /\ (batch.status = "returned") =>
              /\ batch.transactions.iterable
              /\ DOMAIN batch.results = DOMAIN items
              /\ \A k \in DOMAIN items :
                    IF WellFormed(items[k])
                    THEN /\ ~IsErrorReason(batch.results[k].anomaly_reason.v)
                         /\ batch.results[k].is_anomalous.v =
                                is_anomalous(items[k].d, feature_stats).is_anomalous
                    ELSE IsLastResort(batch.results[k])

C7_Witness ==
    /\ batch.status = "returned"
    /\ Len(batch.transactions.items) = 2
    /\ ~WellFormed(batch.transactions.items[1])
    /\ IsLastResort(batch.results[1])
    /\ WellFormed(batch.transactions.items[2])
    /\ batch.results[2].is_anomalous.v

\* C8: two predict calls on the same transaction record return the same
\* result, whatever calls the service handled in between.
C8_Idempotent ==
    \A p \in Procs : \A q \in Procs :
        (Done(p) /\ Done(q) /\ frame[p].transaction = frame[q].transaction) =>
            frame[p].result = frame[q].result

C8_Witness ==
    /\ Done(0)
    /\ Done(1)
    /\ batch.i = 2
    /\ frame[0].transaction = frame[1].transaction
    /\ frame[0].result.is_anomalous.v
    /\ frame[0].result.is_fraud.ty = "numpy.bool_"

\* C9: once the constructor has run, no step changes the classifier, the
\* scaler or how loading ended, and no step at all changes the statistics
\* table.
C9_LoadedStateReadOnly ==
    [][/\ feature_stats' = feature_stats
       /\ Constructed => /\ model' = model
                         /\ scaler' = scaler
                         /\ loadOutcome' = loadOutcome]_vars

C9_Witness ==
    /\ Constructed
    /\ batch.status = "returned"
    /\ Len(batch.results) >= 1
    /\ Done(1)
    /\ IsLastResort(frame[1].result)
    /\ IsErrorReason(batch.results[1].anomaly_reason.v)

\* C10: under every interleaving of the steps of concurrent predictions, a
\* call that has returned holds the result that predict gives when run alone
\* on the service.
C10_ConcurrentAsAlone ==
    \A p \in Procs :
        Done(p) => frame[p].result =
                       predict(frame[p].transaction, model, scaler, feature_stats)

C10_Witness ==
    /\ Done(1)
    /\ frame[0].pc = "proba"
    /\ frame[1].result.is_anomalous.v
    /\ WellFormed(frame[0].transaction)
    /\ frame[0].transaction # frame[1].transaction

\* every result a caller holds, with the input it was computed for: the
\* results of returned predict activations and the results batch_predict
\* has collected so far
ReturnedResults ==
    {<<frame[p].transaction, frame[p].result>> : p \in {q \in Procs : Done(q)}}
        \cup {<<batch.transactions.items[k], batch.results[k]>> :
                 k \in 1..Len(batch.results)}

\* C11 as stated: in every result returned by predict or batch_predict, on
\* every path, anomaly_reason is the empty string whenever is_anomalous is
\* false, and the detector's non-empty reason string when it is true.
C11_ReasonEmptyUnlessAnomalous ==
    \A tr \in ReturnedResults :
        LET t == tr[1]
            r == tr[2]
        IN  /\ ~r.is_anomalous.v => r.anomaly_reason.v = << >>
            /\ r.is_anomalous.v =>
                  /\ WellFormed(t)
                  /\ r.anomaly_reason.v = is_anomalous(t.d, feature_stats).reason
                  /\ r.anomaly_reason.v # << >>

\* C11 amended: on the paths that reach the detector (the not-loaded,
\* inference-failure and normal results) anomaly_reason is empty when
\* is_anomalous is false and the detector's non-empty reason when it is
\* true; in the last-resort result is_anomalous is false and anomaly_reason
\* is not empty: it is the error description.
C11_ReasonByPath ==
    \A tr \in ReturnedResults :
        LET t == tr[1]
            r == tr[2]
        IN  IF WellFormed(t)
            THEN /\ ~r.is_anomalous.v => r.anomaly_reason.v = << >>
                 /\ r.is_anomalous.v =>
                       /\ r.anomaly_reason.v = is_anomalous(t.d, feature_stats).reason
                       /\ r.anomaly_reason.v # << >>
            ELSE /\ ~r.is_anomalous.v
                 /\ IsErrorReason(r.anomaly_reason.v)

\* a batch has collected a non-anomalous result with an empty reason, an
\* anomalous one with the detector's reason and a last-resort one
C11_Witness ==
    /\ \E k \in 1..Len(batch.results) :
          ~batch.results[k].is_anomalous.v /\ batch.results[k].anomaly_reason.v = << >>
    /\ \E k \in 1..Len(batch.results) :
          batch.results[k].is_anomalous.v /\ batch.results[k].anomaly_reason.v # << >>
    /\ \E p \in Procs :
          Done(p) /\ ~WellFormed(frame[p].transaction) /\
          IsErrorReason(frame[p].result.anomaly_reason.v)

\* the path a direct predict call on the drawn input takes
ProbePath ==
    IF EncoderRaises(probe.body) THEN "last-resort"
    ELSE IF probe.model = None \/ probe.scaler = None THEN "not-loaded"
    ELSE IF probe.scaler.kind # "fitted" \/ probe.model.kind # "fitted"
         THEN "inference-failure"
    ELSE "normal"
Predicted == probe.phase = "predicted"

\* C12: is_fraud is true exactly when the reported fraud_probability n/d is
\* strictly greater than 0.5 (2n > d); on the normal path the reported
\* probability is the classifier's; at a probability of exactly 0.5 is_fraud
\* is false and the confidence of a non-anomalous transaction, the base
\* confidence, is 0; in the not-loaded, inference-failure and last-resort
\* results is_fraud is false.
C12_FraudThreshold ==
    Predicted =>
        LET r == probe.out
            p == r.fraud_probability.v
        IN  /\ r.is_fraud.v = (2 * p[1] > p[2])
            /\ ProbePath = "normal" => p \in {probe.model.lo, probe.model.hi}
            /\ (ProbePath = "normal" /\ p = <<1, 2>>) =>
                  /\ r.is_fraud.v = FALSE
                  /\ ~r.is_anomalous.v => r.confidence_score.v = <<0, 1>>
            /\ ProbePath # "normal" => r.is_fraud.v = FALSE

\* a non-anomalous transaction scored exactly 0.5 by the classifier
C12_Witness ==
    /\ Predicted
    /\ ProbePath = "normal"
    /\ probe.out.fraud_probability.v = <<1, 2>>
    /\ ~probe.out.is_anomalous.v
    /\ ~probe.out.is_fraud.v
    /\ probe.out.confidence_score.v = <<0, 1>>

\* |p - 0.5| * 2 for the reported probability p
BaseConfidence(p) == RMul(RAbs(RSub(p, Frac(1, 2))), R(2))
\* 1 - min(anomaly_score / 50, 0.9)
DampingFactor(anomaly_score) ==
    LET severity == RDiv(anomaly_score, R(50))
    IN  RSub(R(1), IF RLt(severity, Frac(9, 10)) THEN severity ELSE Frac(9, 10))

\* C13: on the normal and the inference-failure path the base confidence is
\* |p - 0.5| * 2 for the reported probability p; when the transaction is not
\* anomalous the confidence is the base, unmodified; when it is anomalous
\* the confidence is max(0.1, base * (1 - min(anomaly_score / 50, 0.9))).
C13_ConfidenceAdjustment ==
    (Predicted /\ ProbePath \in {"normal", "inference-failure"}) =>
        LET r == probe.out
            anomaly == is_anomalous(probe.body, feature_stats)
            base == BaseConfidence(r.fraud_probability.v)
            damped == RMul(base, DampingFactor(anomaly.anomaly_score))
        IN  /\ ProbePath = "inference-failure" => r.fraud_probability.v = <<1, 10>>
            /\ r.is_anomalous.v = anomaly.is_anomalous
            /\ ~r.is_anomalous.v => r.confidence_score.v = base
            /\ r.is_anomalous.v =>
                  r.confidence_score.v =
                      IF RLt(damped, Frac(1, 10)) THEN <<1, 10>> ELSE damped

\* an anomalous transaction whose confidence is damped but not floored
C13_Witness ==
    /\ Predicted
    /\ ProbePath \in {"normal", "inference-failure"}
    /\ probe.out.is_anomalous.v
    /\ probe.out.confidence_score.v # <<1, 10>>
    /\ probe.out.confidence_score.v # BaseConfidence(probe.out.fraud_probability.v)

Detected == probe.phase = "detected"
\* |(origin-old - origin-new) - amount| <= 0.01 * max(amount, 1)
BalancesConsistent(body) ==
    LET diff == RSub(RSub(body.oldbalanceOrg, body.newbalanceOrig), body.amount)
        larger == IF RLt(body.amount, R(1)) THEN R(1) ELSE body.amount
    IN  RLe(RAbs(diff), RMul(Frac(1, 100), larger))
\* each of the five numeric fields is between lo and hi of its statistics
FieldsWithin(body, lo, hi) ==
    \A k \in 1..Len(NumericFeatures) :
        LET f == NumericFeatures[k]
        IN  /\ RLe(IF lo = "zero" THEN R(0) ELSE DefaultFeatureStats[f][lo], body[f])
            /\ RLe(body[f], DefaultFeatureStats[f][hi])

\* C14: for every transaction whose five numeric fields are each
\* non-negative and at most the field's 99th-percentile reference (the
\* Scenario 1 payment and the transactions with every field in [q75, q99]
\* among them) and whose balances are consistent, the anomaly score is 0,
\* is_anomalous is false and no reason is triggered: the reason is the
\* 'No anomalies detected' text.
C14_TypicalScoresZero ==
    (Detected /\ FieldsWithin(probe.body, "zero", "q99") /\ BalancesConsistent(probe.body)) =>
        /\ probe.out.anomaly_score = <<0, 1>>
        /\ probe.out.is_anomalous = FALSE
        /\ probe.out.reason = <<<<"none">>>>

\* the detector has run on a consistent transaction with every field in
\* [q75, q99], the amount and both destination balances exactly at q99
C14_Witness ==
    /\ Detected
    /\ FieldsWithin(probe.body, "q75", "q99")
    /\ BalancesConsistent(probe.body)
    /\ probe.body.amount = DefaultFeatureStats.amount.q99
    /\ probe.out.anomaly_score = <<0, 1>>
    /\ ~probe.out.is_anomalous

\* the clauses of a reason that name the field f
ClausesNaming(reason, f) ==
    {k \in 1..Len(reason) : Len(reason[k]) >= 2 /\ reason[k][2] = f}

\* C15: for every transaction with amount = 200,000,000, whatever its other
\* fields, the ratio check and the max check both fire for amount, the
\* anomaly score is greater than 5.0, is_anomalous is true, and the reason
\* names amount in exactly two clauses: 'amount (200,000,000.00) is 179.9x
\* higher than typical values' and 'amount (200,000,000.00) exceeds maximum
\* observed value of 92,445,516.00'.
C15_HugeAmountAnomalous ==
    (Detected /\ probe.body.amount = <<200000000, 1>>) =>
        LET r == probe.out
            named == ClausesNaming(r.reason, "amount")
        IN  /\ r.anomaly_score[1] > 5 * r.anomaly_score[2]
            /\ r.is_anomalous = TRUE
            /\ Cardinality(named) = 2
            /\ \E k \in named :
                  r.reason[k] = <<"ratio", "amount", <<"", 200000000, 0>>, <<"", 179, 9>> >>
            /\ \E k \in named :
                  r.reason[k] = <<"max", "amount", <<"", 200000000, 0>>, <<"", 92445516, 0>> >>

\* the detector has run on an amount of 200,000,000 drawn from an origin
\* balance of 200,000,000, so that the balance rule stays silent
C15_Witness ==
    /\ Detected
    /\ probe.body.amount = <<200000000, 1>>
    /\ probe.body.oldbalanceOrg = <<200000000, 1>>
    /\ probe.body.newbalanceOrig = <<0, 1>>
    /\ probe.out.is_anomalous
    /\ Cardinality(ClausesNaming(probe.out.reason, "amount")) = 2

Encoded == probe.phase = "encoded"

\* the vector the encoder has returned is the nine values, in the fixed order
EncodedInOrder ==
    (Encoded /\ ~EncoderRaises(probe.body) /\ probe.body.step >= 0) =>
        LET b == probe.body
            v == probe.out.features
            hour == v[7][1]
            day == v[8][1]
        IN  /\ ~probe.out.raised
            /\ Len(v) = 9
            /\ v[1] = <<b.step, 1>>
            /\ v[2] = b.amount
            /\ v[3] = b.oldbalanceOrg
            /\ v[4] = b.newbalanceOrig
            /\ v[5] = b.oldbalanceDest
            /\ v[6] = b.newbalanceDest
            /\ v[7][2] = 1 /\ v[8][2] = 1
            /\ 0 <= hour /\ hour <= 23
            /\ b.step = 24 * day + hour
            /\ v[9] = IF "isFlaggedFraud" \in DOMAIN b THEN <<b.isFlaggedFraud, 1>> ELSE <<0, 1>>

\* C16: the encoder returns a 9-element vector in the fixed order [step,
\* amount, origin-old, origin-new, dest-old, dest-new, hour, day,
\* system-flag] with hour = step mod 24 and day = step div 24, so that for
\* every step >= 0: 0 <= hour <= 23 and step = 24 * day + hour; a missing
\* system flag is encoded as 0; and encoding leaves the input record as it
\* was.
C16_EncoderVector ==
    /\ []EncodedInOrder
    /\ [][ProbeEncode => probe'.body = probe.body]_vars

\* step 25 without a system flag is encoded with hour 1, day 1 and flag 0
C16_Witness ==
    /\ Encoded
    /\ ~EncoderRaises(probe.body)
    /\ probe.body.step = 25
    /\ "isFlaggedFraud" \notin DOMAIN probe.body
    /\ probe.out.features[7] = <<1, 1>>
    /\ probe.out.features[8] = <<1, 1>>
    /\ probe.out.features[9] = <<0, 1>>

Responded == probe.phase = "responded"
\* the posted body has every required field, of the right type and in range
InSchema(body) ==
    /\ {"step", "amount", "oldbalanceOrg", "newbalanceOrig", "oldbalanceDest",
        "newbalanceDest", "type"} \subseteq DOMAIN body
    /\ body.step >= 0
    /\ body.amount[1] > 0
    /\ body.oldbalanceOrg[1] >= 0 /\ body.newbalanceOrig[1] >= 0
    /\ body.oldbalanceDest[1] >= 0 /\ body.newbalanceDest[1] >= 0
    /\ body.type \in {"PAYMENT", "TRANSFER", "CASH_OUT", "DEBIT", "CASH_IN"}
    /\ "isFlaggedFraud" \in DOMAIN body => body.isFlaggedFraud \in {0, 1}

C18_NativeFields ==
    \A tr \in ReturnedResults :
        LET r == tr[2]
        IN  /\ r.fraud_probability.ty = "float"
            /\ r.is_fraud.ty = "bool"
            /\ r.confidence_score.ty = "float"
            /\ r.is_anomalous.ty = "bool"
            /\ r.anomaly_reason.ty = "str"

\* the detector found the drawn transaction anomalous and predict reached
\* the confidence adjustment
AdjustedAnomalous ==
    /\ Predicted
    /\ ProbePath \in {"normal", "inference-failure"}
    /\ probe.out.is_anomalous.v

\* C19 as stated: for every anomalous transaction and every probability p in
\* [0, 1] the adjusted confidence is never greater than the base confidence
\* |p - 0.5| * 2.
C19_NeverAboveBase ==
    AdjustedAnomalous =>
        RLe(probe.out.confidence_score.v, BaseConfidence(probe.out.fraud_probability.v))

\* C19 amended: for every anomalous transaction and every probability p in
\* [0, 1] the adjusted confidence is never greater than max(0.1, base): it
\* is strictly below the base when the base is above 0.1, and exactly the
\* floor 0.1 when the base is 0.1 or less, which is above a base smaller
\* than 0.1.
C19_DampsDownToFloor ==
    AdjustedAnomalous =>
        LET c == probe.out.confidence_score.v
            base == BaseConfidence(probe.out.fraud_probability.v)
        IN  IF 10 * base[1] > base[2]
            THEN 10 * c[1] >= c[2] /\ c[1] * base[2] < base[1] * c[2]
            ELSE c = <<1, 10>>

\* an anomalous transaction scored 0.5: the base is 0 and the adjusted
\* confidence is the floor 0.1
C19_Witness ==
    /\ AdjustedAnomalous
    /\ probe.out.fraud_probability.v = <<1, 2>>
    /\ probe.out.confidence_score.v = <<1, 10>>

\* the penalties the field f of body triggers, each on its own: the ratio
\* penalty min(2 * value / q99, 20) when value / q99 > 1.5, the max penalty
\* min(|value - mean| / std, 30) when value > max, and 10 when value < 0
FieldPenalties(body, f) ==
    LET value == body[f]
        st == DefaultFeatureStats[f]
        ratio == RDiv(value, st.q99)
        z == RAbs(RDiv(RSub(value, st.mean), st.std))
        ratioPenalty == IF RGt(value, st.q99) /\ RGt(ratio, Frac(3, 2))
                        THEN (IF RLt(RMul(ratio, R(2)), R(20))
                              THEN RMul(ratio, R(2)) ELSE R(20))
                        ELSE R(0)
        maxPenalty == IF RGt(value, st.max)
                      THEN (IF RLt(z, R(30)) THEN z ELSE R(30))
                      ELSE R(0)
        negativePenalty == IF value[1] < 0 THEN R(10) ELSE R(0)
    IN  RAdd(RAdd(ratioPenalty, maxPenalty), negativePenalty)

\* the sum of the penalties of the five fields and of the balance rule
PenaltySum(body) ==
    RAdd(RAdd(RAdd(FieldPenalties(body, "amount"), FieldPenalties(body, "oldbalanceOrg")),
              RAdd(FieldPenalties(body, "newbalanceOrig"), FieldPenalties(body, "oldbalanceDest"))),
         RAdd(FieldPenalties(body, "newbalanceDest"),
              IF BalancesConsistent(body) THEN R(0) ELSE R(3)))

\* C20: is_anomalous is true exactly when the accumulated anomaly score is
\* strictly greater than 5.0, the score being the sum of all independently
\* triggered per-field penalties plus the balance-consistency penalty; a
\* score of exactly 5.0 or lower, such as a balance mismatch alone (3.0), is
\* not anomalous.
C20_AnomalousAboveFive ==
    Detected =>
        LET score == probe.out.anomaly_score
        IN  /\ score = PenaltySum(probe.body)
            /\ probe.out.is_anomalous = (score[1] > 5 * score[2])

\* the detector has run on a transaction whose score is exactly 5.0 (an
\* amount of 2.5 times the 99th percentile) and found it not anomalous
C20_Witness ==
    /\ Detected
    /\ probe.out.anomaly_score = <<5, 1>>
    /\ ~probe.out.is_anomalous

\* the positions of the balance-mismatch clause in a reason
MismatchClauses(reason) == {k \in 1..Len(reason) : reason[k] = <<"mismatch">>}
\* what the per-field checks contribute to the score of body
PerFieldScore(body) == FeatureLoop(Len(NumericFeatures), body, feature_stats)[1]

\* C21: the detector adds exactly 3.0 to the score and appends the fixed
\* mismatch reason, as the last clause, if and only if
\* |(origin-old - origin-new) - amount| > 0.01 * max(amount, 1.0); the 3.0
\* comes on top of whatever the per-field checks contributed, and a
\* consistent transaction gets no such penalty and no such reason.
C21_BalanceRule ==
    Detected =>
        LET r == probe.out
            onTop == RSub(r.anomaly_score, PerFieldScore(probe.body))
        IN  IF BalancesConsistent(probe.body)
            THEN onTop = <<0, 1>> /\ MismatchClauses(r.reason) = {}
            ELSE onTop = <<3, 1>> /\ MismatchClauses(r.reason) = {Len(r.reason)}

\* the detector has run on origin-old 1000, origin-new 900, amount 50: the
\* score is the penalty 3.0 alone and the reason is the mismatch reason
C21_Witness ==
    /\ Detected
    /\ probe.body.amount = <<50, 1>>
    /\ probe.body.oldbalanceOrg = <<1000, 1>>
    /\ probe.body.newbalanceOrig = <<900, 1>>
    /\ probe.out.anomaly_score = <<3, 1>>
    /\ probe.out.reason = <<<<"mismatch">>>>

\* the sum of a sequence of numbers
RECURSIVE SumR(_)
SumR(q) == IF q = << >> THEN <<0, 1>> ELSE RAdd(q[1], SumR(Tail(q)))

\* what each rule contributes to the score of body, over the five fields
RatioScore(body) ==
    SumR([k \in 1..Len(NumericFeatures) |->
             RatioCheck(NumericFeatures[k], body[NumericFeatures[k]],
                        feature_stats[NumericFeatures[k]])[1]])
MaxScore(body) ==
    SumR([k \in 1..Len(NumericFeatures) |->
             MaxCheck(NumericFeatures[k], body[NumericFeatures[k]],
                      feature_stats[NumericFeatures[k]])[1]])
NegativeScore(body) ==
    SumR([k \in 1..Len(NumericFeatures) |->
             NegativeCheck(NumericFeatures[k], body[NumericFeatures[k]])[1]])

\* the clauses of the given kind that name the field f
ClausesOf(reason, kind, f) ==
    {k \in 1..Len(reason) :
        Len(reason[k]) >= 2 /\ reason[k][1] = kind /\ reason[k][2] = f}
\* the numeric fields of body whose value is negative
NegativeFields(body) ==
    {k \in 1..Len(NumericFeatures) : body[NumericFeatures[k]][1] < 0}

\* C22: each of the five numeric fields whose value is negative adds exactly
\* 10.0 to the score and a reason '<field> (<value>) is negative', and a
\* field that is not negative adds neither; consequently every transaction
\* handed to the detector with at least one negative numeric field is
\* anomalous.
C22_NegativeRule ==
    Detected =>
        LET r == probe.out
            b == probe.body
            others == RAdd(RAdd(RatioScore(b), MaxScore(b)), BalanceCheck(b)[1])
        IN  /\ RSub(r.anomaly_score, others) = <<10 * Cardinality(NegativeFields(b)), 1>>
            /\ \A k \in 1..Len(NumericFeatures) :
                  Cardinality(ClausesOf(r.reason, "negative", NumericFeatures[k]))
                      = IF k \in NegativeFields(b) THEN 1 ELSE 0
            /\ NegativeFields(b) # {} => r.is_anomalous

\* the detector has run on an origin-old balance of -100, the only negative
\* field of the transaction, and found it anomalous
C22_Witness ==
    /\ Detected
    /\ probe.body.oldbalanceOrg = <<0 - 100, 1>>
    /\ NegativeFields(probe.body) = {2}
    /\ probe.out.is_anomalous
    /\ <<"negative", "oldbalanceOrg", <<"-", 100, 0>> >> \in
          {probe.out.reason[k] : k \in 1..Len(probe.out.reason)}

\* the penalty the 99th-percentile rule gives a value against a reference:
\* min(2 * value / reference, 20) when value / reference > 1.5, that is
\* when 2 * value > 3 * reference, and nothing otherwise
RatioPenalty(value, reference) ==
    LET ratio == RDiv(value, reference)
        twice == RMul(ratio, R(2))
    IN  IF RGt(RMul(value, R(2)), RMul(reference, R(3)))
        THEN (IF RLt(twice, R(20)) THEN twice ELSE R(20))
        ELSE R(0)

\* statistics of a field for which no 99th percentile is recorded
StatsWithoutQ99 == [mean |-> R(40), std |-> R(20), min |-> R(0), max |-> R(100)]

\* the rule read against the fallback reference 0.9 * max = 90: 135 is
\* exactly 1.5 times the reference and adds nothing, 180 adds 2 * 2
RatioFallback ==
    /\ RatioCheck("amount", R(90), StatsWithoutQ99) = <<R(0), << >> >>
    /\ RatioCheck("amount", R(135), StatsWithoutQ99) = <<R(0), << >> >>
    /\ RatioCheck("amount", R(180), StatsWithoutQ99)
          = <<R(4), <<<<"ratio", "amount", <<"", 180, 0>>, <<"", 2, 0>> >>>> >>

\* C23: for each of the five numeric fields the detector adds
\* min(ratio * 2, 20.0) to the score and appends a ratio reason exactly when
\* ratio = value / reference > 1.5, the reference being the field's 99th
\* percentile (0.9 * max when no 99th percentile is recorded); a value
\* between the reference and 1.5 times the reference adds nothing.
C23_RatioRule ==
    Detected =>
        LET r == probe.out
            b == probe.body
            others == RAdd(RAdd(MaxScore(b), NegativeScore(b)), BalanceCheck(b)[1])
            expected == SumR([k \in 1..Len(NumericFeatures) |->
                                 RatioPenalty(b[NumericFeatures[k]],
                                              DefaultFeatureStats[NumericFeatures[k]].q99)])
        IN  /\ RSub(r.anomaly_score, others) = expected
            /\ \A k \in 1..Len(NumericFeatures) :
                  LET f == NumericFeatures[k]
                  IN  Cardinality(ClausesOf(r.reason, "ratio", f))
                          = IF RatioPenalty(b[f], DefaultFeatureStats[f].q99) # <<0, 1>>
                            THEN 1 ELSE 0
            /\ RatioFallback

\* the detector has run on an amount of 1.75 times the 99th percentile:
\* ratio 1.8 in the reason, 3.5 added, not capped
C23_Witness ==
    /\ Detected
    /\ probe.body.amount = <<1945762, 1>>
    /\ probe.out.anomaly_score = <<7, 2>>
    /\ probe.out.reason = <<<<"ratio", "amount", <<"", 1945762, 0>>, <<"", 1, 8>> >>>>

\* the penalty the maximum rule gives a value: min(|z|, 30) with
\* z = (value - mean) / max(std, 1) when value > max, and nothing otherwise
MaxPenalty(value, st) ==
    LET spread == IF RLt(st.std, R(1)) THEN R(1) ELSE st.std
        z == RAbs(RDiv(RSub(value, st.mean), spread))
    IN  IF RGt(value, st.max)
        THEN (IF RLt(z, R(30)) THEN z ELSE R(30))
        ELSE R(0)
\* the numeric fields of body whose value exceeds the recorded maximum
FieldsAboveMax(body) ==
    {k \in 1..Len(NumericFeatures) :
        RGt(body[NumericFeatures[k]], DefaultFeatureStats[NumericFeatures[k]].max)}

\* C24: for each of the five numeric fields, exactly when the value exceeds
\* the field's recorded maximum the detector adds min(|z|, 30.0) to the
\* score, with z = (value - mean) / max(std, 1.0), and appends a reason
\* citing the value and the recorded maximum; the rule contributes at most
\* 30.0 per field.
C24_MaxRule ==
    Detected =>
        LET r == probe.out
            b == probe.body
            others == RAdd(RAdd(RatioScore(b), NegativeScore(b)), BalanceCheck(b)[1])
            byMaxRule == RSub(r.anomaly_score, others)
            expected == SumR([k \in 1..Len(NumericFeatures) |->
                                 MaxPenalty(b[NumericFeatures[k]],
                                            DefaultFeatureStats[NumericFeatures[k]])])
        IN  /\ byMaxRule = expected
            /\ RLe(byMaxRule, R(30 * Cardinality(FieldsAboveMax(b))))
            /\ \A k \in 1..Len(NumericFeatures) :
                  LET f == NumericFeatures[k]
                      cited == {r.reason[j] : j \in ClausesOf(r.reason, "max", f)}
                  IN  cited = IF k \in FieldsAboveMax(b)
                              THEN {<<"max", f, Fmt2(b[f]), Fmt2(DefaultFeatureStats[f].max)>>}
                              ELSE {}

\* the detector has run on an origin-old balance of 59,600,000, just above
\* the recorded maximum 59,585,040: the z-score 20.35 is added uncapped
C24_Witness ==
    /\ Detected
    /\ probe.body.oldbalanceOrg = <<59600000, 1>>
    /\ FieldsAboveMax(probe.body) = {2}
    /\ RSub(probe.out.anomaly_score,
            RAdd(RatioScore(probe.body), BalanceCheck(probe.body)[1]))
          = <<58764359, 2888242>>
    /\ <<"max", "oldbalanceOrg", <<"", 59600000, 0>>, <<"", 59585040, 0>> >> \in
          {probe.out.reason[k] : k \in 1..Len(probe.out.reason)}

\* the checks a body triggers, by the conditions of each rule: the fields
\* 1..k in iteration order, and within a field ratio, then max, then negative
RECURSIVE TriggeredUpTo(_, _)
TriggeredUpTo(k, body) ==
    IF k = 0 THEN << >>
    ELSE LET f == NumericFeatures[k]
             st == DefaultFeatureStats[f]
         IN  TriggeredUpTo(k - 1, body)
                \o (IF RatioPenalty(body[f], st.q99) # <<0, 1>> THEN <<<<"ratio", f>>>> ELSE << >>)
                \o (IF RGt(body[f], st.max) THEN <<<<"max", f>>>> ELSE << >>)
                \o (IF RLt(body[f], R(0)) THEN <<<<"negative", f>>>> ELSE << >>)
Triggered(body) ==
    TriggeredUpTo(Len(NumericFeatures), body)
        \o (IF BalancesConsistent(body) THEN << >> ELSE <<<<"mismatch">>>>)
\* the rule and the field each clause of a reason names
ClauseHeads(reason) ==
    [j \in 1..Len(reason) |->
        IF Len(reason[j]) >= 2 THEN <<reason[j][1], reason[j][2]>> ELSE <<reason[j][1]>>]

\* C25: the detector's reason is the sequence of all triggered reasons in
\* field-iteration order (amount, origin-old, origin-new, destination-old,
\* destination-new; within a field the ratio clause, then the max clause,
\* then the negative clause), followed last by the balance-consistency
\* reason; it is the fixed "no anomalies detected" reason exactly when no
\* check triggered, that is exactly when the score is 0.
C25_ReasonOrder ==
    Detected =>
        LET r == probe.out
            triggered == Triggered(probe.body)
        IN  /\ triggered # << >> => ClauseHeads(r.reason) = triggered
            /\ (r.reason = NoAnomalies) <=> (triggered = << >>)
            /\ (r.reason = NoAnomalies) <=> (r.anomaly_score = <<0, 1>>)

\* the detector has run on an origin-old balance above its maximum, a
\* negative origin-new balance and inconsistent balances: all four kinds of
\* clause, in order
C25_Witness ==
    /\ Detected
    /\ probe.body.amount = <<50, 1>>
    /\ ClauseHeads(probe.out.reason)
          = << <<"ratio", "oldbalanceOrg">>, <<"max", "oldbalanceOrg">>,
               <<"negative", "newbalanceOrig">>, <<"mismatch">> >>

\* every activation of predict that passes the loaded check goes on to the
\* scaling step: the not-loaded return is not taken
LoadedCheckPasses ==
    \A p \in Procs :
        frame[p].pc = "check" => frame'[p].pc \in {"check", "scale"}
\* after a load failure both objects are the unfitted defaults, and every
\* returned prediction of a well-formed transaction is the one of the inner
\* scaling/scoring handler: probability 0.1 and the base confidence 0.8
\* damped by the anomaly score
LoadFailureIsInferenceFailure ==
    loadOutcome \in {"missing", "raised"} =>
        /\ model = UnfittedModel /\ scaler = UnfittedScaler
        /\ InferenceFails
        /\ \A p \in Procs :
              (Done(p) /\ WellFormed(frame[p].transaction)) =>
                  LET r == frame[p].result
                      a == is_anomalous(frame[p].transaction.d, feature_stats)
                      damped == RMax(Frac(1, 10),
                                     RMul(Frac(8, 10),
                                          RSub(R(1), RMin(RDiv(a.anomaly_score, R(50)),
                                                          Frac(9, 10)))))
                  IN  /\ r.fraud_probability.v = Frac(1, 10)
                      /\ r.is_fraud.v = FALSE
                      /\ r.is_anomalous.v = a.is_anomalous
                      /\ r.confidence_score.v = IF a.is_anomalous THEN damped ELSE Frac(8, 10)
                      /\ ~IsErrorReason(r.anomaly_reason.v)

\* C26: after FraudDetectionService is constructed, model and scaler are
\* both non-None in every reachable state, whichever way loading ended
\* (files loaded, files missing, or loading raised, in which case both are
\* replaced by unfitted default objects); hence the 'model or scaler not
\* loaded' branch of predict is never taken and a load failure is handled by
\* the inference-failure path instead.
C26_AlwaysLoaded ==
    /\ [](Constructed => model # None /\ scaler # None)
    /\ [](loadOutcome = "raised" => model = UnfittedModel /\ scaler = UnfittedScaler)
    /\ [][LoadedCheckPasses]_vars
    /\ []LoadFailureIsInferenceFailure

\* loading raised, and predict has returned for an anomalous well-formed
\* transaction with the damped confidence 0.704 of the inner handler
C26_Witness ==
    \E p \in Procs :
        /\ Done(p)
        /\ loadOutcome = "raised"
        /\ model # None /\ scaler # None
        /\ WellFormed(frame[p].transaction)
        /\ frame[p].result.is_anomalous.v
        /\ frame[p].result.fraud_probability.v = Frac(1, 10)
        /\ frame[p].result.confidence_score.v = Frac(704, 1000)

\* the bundled statistics put every recorded maximum more than 5 deviations
\* above the mean and above 1.5 times the 99th percentile: the least that a
\* value above the maximum can get from the max rule, and the reason the
\* ratio rule fires with it
MaximaFarOut ==
    \A k \in 1..Len(NumericFeatures) :
        LET st == DefaultFeatureStats[NumericFeatures[k]]
            spread == IF RLt(st.std, R(1)) THEN R(1) ELSE st.std
        IN  /\ RGt(RDiv(RSub(st.max, st.mean), spread), R(5))
            /\ RGt(RMul(R(2), st.max), RMul(R(3), st.q99))
            /\ RGt(st.q99, R(0))

\* C27: with the bundled default statistics, every transaction in which any
\* of the five numeric fields exceeds that field's recorded maximum is
\* anomalous: for each field the max-exceeded clause alone contributes more
\* than 5.0, and the ratio (> 1.5 x 99th percentile) clause always fires
\* together with it, so a max-exceeded reason never appears without a ratio
\* reason for the same field.
C27_AboveMaxAnomalous ==
    Detected =>
        LET r == probe.out
            b == probe.body
            others == RAdd(RAdd(RatioScore(b), NegativeScore(b)), BalanceCheck(b)[1])
            byMaxRule == RSub(r.anomaly_score, others)
        IN  /\ feature_stats = DefaultFeatureStats
            /\ MaximaFarOut
            /\ FieldsAboveMax(b) # {} =>
                  /\ r.is_anomalous
                  /\ RGt(byMaxRule, R(5 * Cardinality(FieldsAboveMax(b))))
            /\ \A k \in 1..Len(NumericFeatures) :
                  /\ k \in FieldsAboveMax(b) =>
                        /\ ClausesOf(r.reason, "max", NumericFeatures[k]) # {}
                        /\ ClausesOf(r.reason, "ratio", NumericFeatures[k]) # {}
                  /\ ClausesOf(r.reason, "max", NumericFeatures[k]) # {} =>
                        ClausesOf(r.reason, "ratio", NumericFeatures[k]) # {}

\* the detector has run on an origin-new balance of 50,893,502, the only
\* field above its maximum (49,585,040): a ratio clause and a max clause for
\* it, and the transaction is anomalous
C27_Witness ==
    /\ Detected
    /\ probe.body.newbalanceOrig = <<50893502, 1>>
    /\ FieldsAboveMax(probe.body) = {3}
    /\ probe.out.is_anomalous
    /\ ClausesOf(probe.out.reason, "max", "newbalanceOrig") # {}
    /\ ClausesOf(probe.out.reason, "ratio", "newbalanceOrig") # {}
    /\ RGt(MaxScore(probe.body), R(5))

\* the categories and identifiers a second transaction may carry, and the
\* steps and flags a second detector input may carry
OtherTypes == TransactionType \cup {"WIRE"}
OtherIds == {"TX", "TX-OTHER"}
OtherSteps == {0, 1, 25, MaxStep}
OtherFlags == {0, 1}
\* body with the fields named by over replaced, where body has them
Replaced(body, over) ==
    [x \in DOMAIN body |-> IF x \in DOMAIN over THEN over[x] ELSE body[x]]
\* the transactions that agree with body on step, amount, the four balances
\* and the system flag
SameButLabel(body) ==
    {Replaced(body, [type |-> ty, transaction_id |-> id]) :
        ty \in OtherTypes, id \in OtherIds}
\* the transactions that agree with body on amount and the four balances
SameMoney(body) ==
    {Replaced(body, [type |-> ty, transaction_id |-> id,
                     step |-> st, isFlaggedFraud |-> fl]) :
        ty \in OtherTypes, id \in OtherIds, st \in OtherSteps, fl \in OtherFlags}
       \cup {[x \in DOMAIN body \ {"step", "type", "transaction_id", "isFlaggedFraud"}
                |-> body[x]]}

\* C28: the prediction result does not depend on the transaction category or
\* the transaction identifier: two transactions that agree on step, amount,
\* the four balances and the system flag get identical results from predict,
\* and two that agree on amount and the four balances get identical
\* anomaly-detector outputs (is_anomalous, score, reason) regardless of
\* step, category, identifier and flag.
C28_LabelIndependence ==
    /\ Predicted =>
          \A other \in SameButLabel(probe.body) :
              predict([hasDict |-> TRUE, d |-> other],
                      probe.model, probe.scaler, feature_stats) = probe.out
    /\ Detected =>
          \A other \in SameMoney(probe.body) :
              is_anomalous(other, feature_stats) = probe.out

\* predict has returned for the large transfer (category TRANSFER), found
\* anomalous, and the same transaction as a PAYMENT under another identifier
\* gets the same result
C28_Witness ==
    /\ Predicted
    /\ probe.body = LargeTransfer.d
    /\ probe.out.is_anomalous.v
    /\ predict([hasDict |-> TRUE,
                d |-> Replaced(probe.body, [type |-> "PAYMENT", transaction_id |-> "TX-OTHER"])],
               probe.model, probe.scaler, feature_stats) = probe.out

====
